---- MODULE Spec2Model ----
(***************************************************************************)
(* Command dispatch and notification bridge of chat-req-res                *)
(* (src/chat-req-res/src/server.rs, cmd.rs, cmd/greet.rs, cmd/yebisu.rs).  *)
(*                                                                         *)
(* AppState holds the registry `handlers` (name -> CommandHandler) and the *)
(* producer end `tx` of a bounded tokio mpsc channel of strings.  Every    *)
(* inbound POST runs AppState::handler as its own task: it looks the       *)
(* command up, calls the handler with a clone of tx and awaits it.  Both   *)
(* handlers format one notification, `tx.send(..).await?` it and return    *)
(* their fixed response text.                                              *)
(*                                                                         *)
(* String literals of the source that are not ASCII are written in         *)
(* romanised form, because the module is ASCII only:                       *)
(*   "greet handler kara: "  stands for  "greet handlerから: "     *)
(*   "yebisu handler kara: " stands for  "yebisu handlerから: "    *)
(*   "dame"                  stands for  "だめ"                    *)
(***************************************************************************)
EXTENDS Integers, Sequences, FiniteSets, TLC

\* ------------------------------------------------------------------ bounds
\* Number of requests (dispatch tasks) a run accepts.
MaxReqs == 3
\* Largest capacity of the bounded notification channel whose Sender is
\* handed to server::start (the caller of start chooses the capacity).
MaxCapacity == 2
\* Number of stdin lines and swarm events an event loop handles in a run.
MaxEvents == 3

Reqs == 1..MaxReqs

\* Command strings a client sends: the two registered names, a different-case
\* variant, an unregistered name and the empty string.
Commands == {"greet", "yebisu", "Greet", "unknown", ""}
\* Params strings a client sends.
Params == {"hi", "x"}
\* Params sent with command c.  Only the handlers read req.params, so the
\* commands no handler serves are sent with a single params value.
ParamsFor(c) == IF c \in {"greet", "yebisu"} THEN Params ELSE {"x"}

\* The two binaries with a gossip event loop (chat/src/main.rs and
\* chat-req-res/src/main.rs).
Programs == {"chat", "chat-req-res"}
\* Lines typed on stdin.
Lines == {"hello", "HELLO", "World"}
\* message.data of gossip messages from the network.  "HELLO<FF>" stands for
\* the bytes of HELLO followed by the byte 0xFF, which is not valid UTF-8.
Datas == {"HELLO", "WORLD", "hello", "HELLO<FF>"}
\* Peer ids in mDNS events.
Peers == {"p1", "p2"}
\* Result of gossipsub publish: Ok(MessageId) or Err(PublishError).
PublishOutcomes == {"Ok", "Err"}

VARIABLES
    capacity,   \* capacity of the channel behind the Sender given to start
    sendLog,    \* strings whose tx.send(..) returned Ok, in the order of the Ok
    server,     \* position of server::start: "init", "built" (AppState and
                \* router made), "serving" (listener bound, axum::serve
                \* runs) or "stopped" (bind failed, start panicked)
    handlers,   \* AppState.handlers: registry, command name -> handler
    rxOpen,     \* the consumer end (Receiver) of the channel is alive and open
    permits,    \* free slots of the channel's semaphore
    chan,       \* messages buffered in the channel, oldest first
    waiters,    \* requests queued on the semaphore for a slot, oldest first
    received,   \* messages the consumer has taken out of the channel, in order
    senders,    \* live Sender handles of the channel (AppState.tx and its clones)
    pc,         \* per request: "new" (not yet sent), "idle" (submitted, its
                \* task not yet polled), "suspended", "granted" or "done"
    req,        \* per request: the RestReq value (<<command, params>>)
    invoked,    \* per request: handlers the dispatcher called, in order
    sent,       \* per request: messages its handler placed on the channel
    result,     \* per request: what AppState::handler returned
    resolved,   \* per request: number of times its dispatch produced a result
    resp,       \* per request: the HTTP response the caller got
    program,    \* which binary's main runs the gossip event loop
    mainPc,     \* position of main: "setup", "loop" or "exited"
    log,        \* per handled select! branch: the event and its publish calls
    explicitPeers   \* peers added by add_explicit_peer and not removed since

\* Variables of the gossip event loop.
loopVars == <<program, mainPc, log, explicitPeers>>

\* Variables of the command server and its notification channel.
serverVars == <<capacity, sendLog, server, handlers, rxOpen, permits, chan, waiters, received,
                senders, pc, req, invoked, sent, result, resolved, resp>>

vars == <<capacity, sendLog, server, handlers, rxOpen, permits, chan, waiters, received, senders,
          pc, req, invoked, sent, result, resolved, resp,
          program, mainPc, log, explicitPeers>>

\* ------------------------------------------------------------ pure helpers

\* greet::handle and yebisu::handle as values stored in the registry.
GreetHandle == "greet::handle"
YebisuHandle == "yebisu::handle"

\* cmd::wrap boxes a handler function; calling the box calls that function.
wrap(f) == f

\* A plausible slip in the registration table: the two handlers exchanged.
register_handle_swapped ==
    ("greet" :> wrap(YebisuHandle)) @@ ("yebisu" :> wrap(GreetHandle))

\* A plausible slip: the registration loop stops after the first pair.
register_handle_partial ==
    ("greet" :> wrap(GreetHandle))

\* cmd::register_handle: the fixed table of (name, handler) pairs.
register_handle ==
    ("greet" :> wrap(GreetHandle)) @@ ("yebisu" :> wrap(YebisuHandle))

\* A plausible slip: yebisu.rs copied from greet.rs with the prefix unchanged.
Notification_copied(f, params) == "greet handler kara: " \o params

\* format!("<prefix>{}", req.params) of the two handlers.
Notification(f, params) ==
    IF f = GreetHandle THEN "greet handler kara: " \o params
    ELSE "yebisu handler kara: " \o params

\* A plausible slip: yebisu.rs copied from greet.rs with the text unchanged.
SuccessText_copied(f) == "good-bye"

\* The RestRes each handler returns after its send succeeded.
SuccessText(f) ==
    IF f = GreetHandle THEN "good-bye" ELSE "Yebisu beer is excellent!"

\* Results of AppState::handler.
NoResult == <<"None", "">>
Ok(text) == <<"Ok", text>>
Err(text) == <<"Err", text>>

\* Display text of tokio's SendError, which `?` turns into anyhow::Error.
SendErrorText == "channel closed"
\* anyhow!("dame") of the None arm.
UnknownErrorText == "dame"

\* The response not yet produced.
NoResp == [status |-> 0, body |-> {}]

\* A plausible slip: the error is swallowed by the conversion (status 200).
IntoResponse_ok(res) ==
    IF res[1] = "Ok"
    THEN [status |-> 200, body |-> {<<"response", res[2]>>}]
    ELSE [status |-> 200,
          body |-> {<<"message", "not success">>, <<"from", res[2]>>}]

\* What axum turns the handler's return value into: Ok(Json(RestRes)) is a
\* 200 with {"response": ..}; Err(AppError) goes through
\* AppError::into_response, a 500 with {"message": "not success", "from": ..}.
IntoResponse(res) ==
    IF res[1] = "Ok"
    THEN [status |-> 200, body |-> {<<"response", res[2]>>}]
    ELSE [status |-> 500,
          body |-> {<<"message", "not success">>, <<"from", res[2]>>}]

\* A plausible slip: a missing command falls back to the first handler.
Get_fallback(h, name) ==
    IF name \in DOMAIN h THEN <<h[name]>> ELSE <<h["greet"]>>

\* A plausible slip: the command is lower-cased before the lookup.
Get_nocase(h, name) ==
    LET lower == IF name = "Greet" THEN "greet" ELSE name
    IN  IF lower \in DOMAIN h THEN <<h[lower]>> ELSE <<>>

\* HashMap::get on the registry: Some(func) as <<func>>, None as <<>>.
Get(h, name) == IF name \in DOMAIN h THEN <<h[name]>> ELSE <<>>

\* A plausible variant: the error names the command that was requested.
UnknownError_named(name) == Err("unknown command: " \o name)

\* The None arm of AppState::handler: Err(AppError(anyhow!("dame"))).
UnknownError(name) == Err(UnknownErrorText)

\* A plausible slip: a free slot is taken without looking at the closed flag.
Acquire_unchecked(open, free) ==
    IF free > 0 THEN "ready" ELSE IF ~open THEN "closed" ELSE "pending"

\* A plausible slip: a bounded channel that takes a message without a slot.
Acquire_overflow(open, free) == IF ~open THEN "closed" ELSE "ready"

\* A plausible slip: try_send instead of send(..).await, a full channel is
\* an error at once.
Acquire_try(open, free) ==
    IF ~open THEN "closed" ELSE IF free > 0 THEN "ready" ELSE "closed"

\* First poll of tx.send(..): the semaphore reports the channel closed, hands
\* out a free slot, or queues the sender.
Acquire(open, free) ==
    IF ~open THEN "closed" ELSE IF free > 0 THEN "ready" ELSE "pending"

\* A plausible slip: `let _ = tx.send(..).await;` instead of `.await?`.
HandlerResult_swallow(f, sendOk) == Ok(SuccessText(f))

\* `tx.send(..).await?; Ok(RestRes{..})`: a failed send is the result.
HandlerResult(f, sendOk) ==
    IF sendOk THEN Ok(SuccessText(f)) ELSE Err(SendErrorText)

\* A plausible slip: dispatches serialised behind one in-flight handler.
CanDispatch_serial(r) ==
    \A o \in Reqs \ {r} : pc[o] \notin {"suspended", "granted"}

\* A plausible slip: an error takes the server down (no dispatch after it).
CanDispatch_fatal(r) == \A o \in Reqs : result[o][1] # "Err"

\* A plausible slip: the dispatcher reserves a channel slot before it looks
\* the command up.
CanDispatch_needsSlot(r) == permits > 0 \/ ~rxOpen

\* A plausible slip: requests are served strictly in the order of submission.
CanDispatch_inorder(r) == \A o \in Reqs : o < r => pc[o] \notin {"new", "idle"}

\* AppState is cloned per request and holds no lock: a dispatch never waits
\* for another dispatch.
CanDispatch(r) == TRUE

\* A plausible slip: the handler is given the state's own Sender (moved out
\* of the shared state) instead of a clone.
CloneTx_move(n) == n

\* The State extractor clones the AppState for the request, and with it tx:
\* one more live Sender, which is dropped when AppState::handler returns.
CloneTx(n) == n + 1

\* --------------------------------------------------------------- the model

\* The server before server::start has run.
ServerInit ==
    /\ server = "init"
    /\ handlers = <<>>
    /\ rxOpen = TRUE
    /\ capacity \in 1..MaxCapacity
    /\ permits = capacity
    /\ sendLog = <<>>
    /\ chan = <<>>
    /\ waiters = <<>>
    /\ received = <<>>
    /\ senders = 1
    /\ pc = [r \in Reqs |-> "new"]
    /\ req = [r \in Reqs |-> <<"", "">>]
    /\ invoked = [r \in Reqs |-> <<>>]
    /\ sent = [r \in Reqs |-> <<>>]
    /\ result = [r \in Reqs |-> NoResult]
    /\ resolved = [r \in Reqs |-> 0]
    /\ resp = [r \in Reqs |-> NoResp]

\* main before its first statement.
LoopIdle ==
    /\ mainPc = "setup"
    /\ log = <<>>
    /\ explicitPeers = {}

Init == ServerInit /\ program = "chat-req-res" /\ LoopIdle

\* server::start up to its first await: AppState::new(tx) builds the
\* registry and takes the Sender, and the router is made with that state.
Start ==
    /\ server = "init"
    /\ handlers' = register_handle
    /\ server' = "built"
    /\ UNCHANGED <<capacity, sendLog, rxOpen, permits, chan, waiters,
                   received, senders,
                   pc, req, invoked, sent, result, resolved, resp>>
    /\ UNCHANGED loopVars

\* TcpListener::bind(host).await.unwrap(): with a listener axum::serve starts
\* accepting requests (its future does not resolve); on an error the unwrap
\* panics, the router is dropped and with it the AppState: the registry and
\* the Sender it held.
Bind(ok) ==
    /\ server = "built"
    /\ IF ok
       THEN /\ server' = "serving"
            /\ UNCHANGED <<handlers, senders>>
       ELSE /\ server' = "stopped"
            /\ handlers' = <<>>
            /\ senders' = senders - 1
    /\ UNCHANGED <<capacity, sendLog, rxOpen, permits, chan, waiters,
                   received,
                   pc, req, invoked, sent, result, resolved, resp>>
    /\ UNCHANGED loopVars

\* A client's POST reaches the serving router, which spawns the task that
\* will run AppState::handler for it.  Requests are numbered in the order in
\* which they are submitted.
Submit(r) ==
    /\ server = "serving"
    /\ pc[r] = "new"
    /\ \A o \in Reqs : o < r => pc[o] # "new"
    /\ pc' = [pc EXCEPT ![r] = "idle"]
    /\ UNCHANGED <<capacity, sendLog, server, handlers, rxOpen, permits, chan,
                   waiters, received, senders,
                   req, invoked, sent, result, resolved, resp>>
    /\ UNCHANGED loopVars

\* The dispatch of r returns res to axum, which converts it to the response.
Complete(r, res) ==
    /\ pc' = [pc EXCEPT ![r] = "done"]
    /\ result' = [result EXCEPT ![r] = res]
    /\ resolved' = [resolved EXCEPT ![r] = @ + 1]
    /\ resp' = [resp EXCEPT ![r] = IntoResponse(res)]

\* The r-th POST submitted to the server, with body {command: c, params: p},
\* runs AppState::handler up to its first suspension: extraction of the
\* RestReq, lookup, call of the handler with a clone of tx, and the first poll
\* of the handler's send.  Every request is a task of its own on the
\* multi-threaded runtime, so the tasks reach this point in any order.
Dispatch(r, c, p) ==
    /\ server = "serving"
    /\ pc[r] = "idle"
    /\ CanDispatch(r)
    /\ req' = [req EXCEPT ![r] = <<c, p>>]
    /\ LET func == Get(handlers, c) IN
       IF func = <<>>
       THEN /\ Complete(r, UnknownError(c))
            /\ UNCHANGED <<sendLog, permits, chan, waiters, invoked, sent>>
       ELSE /\ invoked' = [invoked EXCEPT ![r] = Append(@, func[1])]
            /\ LET a == Acquire(rxOpen, permits) IN
               CASE a = "closed" ->
                      /\ Complete(r, HandlerResult(func[1], FALSE))
                      /\ UNCHANGED <<sendLog, permits, chan, waiters, sent>>
                 [] a = "ready" ->
                      /\ permits' = permits - 1
                      /\ chan' = Append(chan, Notification(func[1], p))
                      /\ sendLog' = Append(sendLog, Notification(func[1], p))
                      /\ sent' = [sent EXCEPT ![r] =
                                    Append(@, Notification(func[1], p))]
                      /\ Complete(r, HandlerResult(func[1], TRUE))
                      /\ UNCHANGED waiters
                 [] a = "pending" ->
                      /\ waiters' = Append(waiters, r)
                      /\ pc' = [pc EXCEPT ![r] = "suspended"]
                      /\ UNCHANGED <<sendLog, permits, chan, sent,
                                     result, resolved, resp>>
    /\ senders' = IF pc'[r] = "done" THEN CloneTx(senders) - 1
                  ELSE CloneTx(senders)
    /\ UNCHANGED <<capacity, server, handlers, rxOpen, received>>
    /\ UNCHANGED loopVars

\* The task of r is polled again after a wake-up: the semaphore is closed
\* (send fails) or the slot it was granted takes the message (send succeeds).
Resume(r) ==
    /\ \/ pc[r] = "granted"
       \/ pc[r] = "suspended" /\ ~rxOpen
    /\ LET func == invoked[r][Len(invoked[r])] IN
       IF ~rxOpen
       THEN /\ Complete(r, HandlerResult(func, FALSE))
            /\ permits' = IF pc[r] = "granted" THEN permits + 1 ELSE permits
            /\ UNCHANGED <<sendLog, chan, sent>>
       ELSE /\ chan' = Append(chan, Notification(func, req[r][2]))
            /\ sendLog' = Append(sendLog, Notification(func, req[r][2]))
            /\ sent' = [sent EXCEPT ![r] =
                          Append(@, Notification(func, req[r][2]))]
            /\ Complete(r, HandlerResult(func, TRUE))
            /\ UNCHANGED permits
    /\ senders' = senders - 1
    /\ UNCHANGED <<capacity, server, handlers, rxOpen, waiters, received,
                   req, invoked>>
    /\ UNCHANGED loopVars

\* The consumer takes the oldest message; the slot it frees goes to the
\* oldest queued sender, or back to the semaphore when nobody waits.
Recv ==
    /\ chan # <<>>
    /\ received' = Append(received, Head(chan))
    /\ chan' = Tail(chan)
    /\ IF waiters # <<>>
       THEN /\ pc' = [pc EXCEPT ![Head(waiters)] = "granted"]
            /\ waiters' = Tail(waiters)
            /\ UNCHANGED permits
       ELSE /\ permits' = permits + 1
            /\ UNCHANGED <<pc, waiters>>
    /\ UNCHANGED <<capacity, sendLog, server, handlers, rxOpen, senders,
                   req, invoked, sent, result, resolved, resp>>
    /\ UNCHANGED loopVars

\* The consumer end goes away: the semaphore is closed and every queued
\* sender is woken.
CloseRx ==
    /\ rxOpen
    /\ rxOpen' = FALSE
    /\ waiters' = <<>>
    /\ UNCHANGED <<capacity, sendLog, server, handlers, permits, chan,
                   received, senders,
                   pc, req, invoked, sent, result, resolved, resp>>
    /\ UNCHANGED loopVars

Next ==
    \/ Start
    \/ \E ok \in BOOLEAN : Bind(ok)
    \/ \E r \in Reqs : Submit(r)
    \/ \E r \in Reqs, c \in Commands : \E p \in ParamsFor(c) : Dispatch(r, c, p)
    \/ \E r \in Reqs : Resume(r)
    \/ Recv
    \/ CloseRx

Spec == Init /\ [][Next]_vars

\* A task that was woken is polled again by the tokio scheduler.
FairSpec ==
    /\ Spec
    /\ \A r \in Reqs : WF_vars(Resume(r))

\* In addition the consumer keeps draining the channel while it holds messages.
FairDrainSpec == FairSpec /\ WF_vars(Recv)

\* ------------------------------------------------- the gossip event loops

\* str::to_uppercase on the lines and message texts of the model.
ToUppercase(s) ==
    CASE s = "hello" -> "HELLO"
      [] s = "World" -> "WORLD"
      [] OTHER -> s

\* String::from_utf8_lossy: valid UTF-8 is kept, an invalid byte becomes
\* U+FFFD (written <FFFD>).
FromUtf8Lossy(d) == IF d = "HELLO<FF>" THEN "HELLO<FFFD>" ELSE d

\* The bytes published for a stdin line: chat upper-cases the line first,
\* chat-req-res publishes it as typed.
StdinData(prog, line) == IF prog = "chat" THEN ToUppercase(line) ELSE line

\* `if msg == "HELLO" {publish b"WORLD"} else if msg == "WORLD" {publish
\* b"HELLO"}`: the data published in reply to a message, as a sequence.
Reply(msg) ==
    IF msg = "HELLO" THEN <<"WORLD">>
    ELSE IF msg = "WORLD" THEN <<"HELLO">>
    ELSE <<>>

\* A plausible slip: `publish(..)?`, a publish error returns from main.
AfterPublish_question(o) == IF o = "Err" THEN "exited" ELSE "loop"

\* `if let Err(e) = ..publish(..) { println!(..) }`: the error is printed and
\* the loop goes on.
AfterPublish(o) == "loop"

\* One handled branch of select!: the event and the publish calls it made,
\* each <<data, outcome>>.
Handled(kind, data, peers, pubs) ==
    [kind |-> kind, data |-> data, peers |-> peers, pubs |-> pubs]

LoopInit == ServerInit /\ program \in Programs /\ LoopIdle

\* main up to the loop: building the swarm, subscribing, listening (and
\* dialing) each end main with `?` on an error.
Setup(ok) ==
    /\ mainPc = "setup"
    /\ mainPc' = IF ok THEN "loop" ELSE "exited"
    /\ UNCHANGED <<program, log, explicitPeers>>
    /\ UNCHANGED serverVars

\* select! branch `Ok(Some(line)) = stdin.next_line()`: the line is published.
StdinLine(line, o) ==
    /\ mainPc = "loop"
    /\ Len(log) < MaxEvents
    /\ log' = Append(log, Handled("stdin", line, {},
                                  <<<<StdinData(program, line), o>>>>))
    /\ mainPc' = AfterPublish(o)
    /\ UNCHANGED <<program, explicitPeers>>
    /\ UNCHANGED serverVars

\* gossipsub::Event::Message: HELLO and WORLD are answered, anything else is
\* only printed.
GossipMessage(data, o) ==
    /\ mainPc = "loop"
    /\ Len(log) < MaxEvents
    /\ LET rep == Reply(FromUtf8Lossy(data)) IN
          /\ log' = Append(log, Handled("message", data, {},
                                        [i \in 1..Len(rep) |-> <<rep[i], o>>]))
          /\ mainPc' = IF rep = <<>> THEN "loop" ELSE AfterPublish(o)
    /\ UNCHANGED <<program, explicitPeers>>
    /\ UNCHANGED serverVars

\* mdns::Event::Discovered (chat only): every listed peer is added.
MdnsDiscovered(list) ==
    /\ mainPc = "loop"
    /\ program = "chat"
    /\ Len(log) < MaxEvents
    /\ explicitPeers' = explicitPeers \cup list
    /\ log' = Append(log, Handled("discovered", "", list, <<>>))
    /\ UNCHANGED <<program, mainPc>>
    /\ UNCHANGED serverVars

\* mdns::Event::Expired (chat only): every listed peer is removed.
MdnsExpired(list) ==
    /\ mainPc = "loop"
    /\ program = "chat"
    /\ Len(log) < MaxEvents
    /\ explicitPeers' = explicitPeers \ list
    /\ log' = Append(log, Handled("expired", "", list, <<>>))
    /\ UNCHANGED <<program, mainPc>>
    /\ UNCHANGED serverVars

\* SwarmEvent::NewListenAddr (printed) and the `_ => {}` arm.
OtherEvent(kind) ==
    /\ mainPc = "loop"
    /\ Len(log) < MaxEvents
    /\ log' = Append(log, Handled(kind, "", {}, <<>>))
    /\ UNCHANGED <<program, mainPc, explicitPeers>>
    /\ UNCHANGED serverVars

LoopNext ==
    \/ \E ok \in BOOLEAN : Setup(ok)
    \/ \E line \in Lines, o \in PublishOutcomes : StdinLine(line, o)
    \/ \E data \in Datas, o \in PublishOutcomes : GossipMessage(data, o)
    \/ \E list \in (SUBSET Peers) \ {{}} : MdnsDiscovered(list)
    \/ \E list \in (SUBSET Peers) \ {{}} : MdnsExpired(list)
    \/ \E kind \in {"listen", "other"} : OtherEvent(kind)

LoopSpec == LoopInit /\ [][LoopNext]_vars

\* ------------------------------------------------------- shared predicates

Registered == {"greet", "yebisu"}
InFlight == {"suspended", "granted"}
Started == {"suspended", "granted", "done"}
Command(r) == req[r][1]
ParamsOf(r) == req[r][2]
SendFailed == <<"Err", "channel closed">>

\* ---------------------------------------------------------------- claim C1
\* C1: a request whose command is "greet" or "yebisu" has, once dispatched,
\* exactly one handler invocation, that of the handler registered under its
\* name (greet::handle for "greet", yebisu::handle for "yebisu"), and none
\* before it is dispatched; whatever the other requests are doing.
C1_ExactHandler ==
    \A r \in Reqs :
        /\ pc[r] \in {"new", "idle"} => invoked[r] = <<>>
        /\ (pc[r] \in Started /\ Command(r) = "greet")
               => invoked[r] = <<"greet::handle">>
        /\ (pc[r] \in Started /\ Command(r) = "yebisu")
               => invoked[r] = <<"yebisu::handle">>

C1_Witness ==
    \E a, b \in Reqs :
        /\ Command(a) = "greet" /\ pc[a] = "done"
        /\ invoked[a] = <<"greet::handle">>
        /\ Command(b) = "yebisu" /\ pc[b] \in InFlight
        /\ invoked[b] = <<"yebisu::handle">>

\* ---------------------------------------------------------------- claim C2
\* C2: the step that dispatches a request whose command is not a registry key
\* ends the request with an error and leaves the channel (buffer, free slots,
\* queued senders), the handler invocations and the sent notifications of
\* every request as they were.
C2_UnknownNoEffect ==
    [][\A r \in Reqs :
          (pc[r] = "idle" /\ pc'[r] # "idle"
                /\ req'[r][1] \notin Registered)
            => /\ pc'[r] = "done"
               /\ result'[r][1] = "Err"
               /\ chan' = chan /\ permits' = permits /\ waiters' = waiters
               /\ invoked' = invoked /\ sent' = sent]_vars

C2_Witness ==
    \E r \in Reqs :
        /\ Command(r) = "unknown" /\ pc[r] = "done"
        /\ result[r][1] = "Err" /\ invoked[r] = <<>> /\ sent[r] = <<>>
        /\ chan # <<>>

\* ---------------------------------------------------------------- claim C3
\* C3 as stated: the error of an unknown command identifies the requested
\* name, so two finished requests with different unregistered names carry
\* different errors.
C3_ErrorNamesCommand ==
    \A a, b \in Reqs :
        (/\ pc[a] = "done" /\ pc[b] = "done"
         /\ Command(a) \notin Registered /\ Command(b) \notin Registered
         /\ Command(a) # Command(b))
            => result[a] # result[b]

\* C3 as amended: the error of an unknown command is the one fixed error
\* "dame", whatever name was requested; it tells an unknown command from a
\* send failure, but not one unknown name from another.
C3_FixedUnknownError ==
    \A r \in Reqs :
        (pc[r] = "done" /\ Command(r) \notin Registered)
            => /\ result[r] = <<"Err", "dame">>
               /\ result[r] # SendFailed
               /\ <<"from", "dame">> \in resp[r].body

C3_Witness ==
    \E a, b \in Reqs :
        /\ pc[a] = "done" /\ pc[b] = "done"
        /\ Command(a) = "unknown" /\ Command(b) = "Greet"
        /\ result[a] = <<"Err", "dame">> /\ result[b] = result[a]

\* ---------------------------------------------------------------- claim C4
\* C4: every request that ended in an error got the status 500 and the body
\* {message: "not success", from: <text of the error>}, the text being that
\* of the unknown-command error or of the send failure; a 200 is only ever
\* the answer to a success.
C4_ErrorEnvelope ==
    \A r \in Reqs :
        /\ (pc[r] = "done" /\ result[r][1] = "Err")
              => /\ resp[r].status = 500
                 /\ resp[r].body = {<<"message", "not success">>,
                                    <<"from", result[r][2]>>}
                 /\ result[r][2] \in {"dame", "channel closed"}
                 /\ Command(r) \in Registered <=> result[r][2] = "channel closed"
        /\ resp[r].status = 200 => result[r][1] = "Ok"
        /\ resp[r].status \in {0, 200, 500}

C4_Witness ==
    \E a, b \in Reqs :
        /\ pc[a] = "done" /\ Command(a) \notin Registered
        /\ resp[a] = [status |-> 500,
                      body |-> {<<"message", "not success">>, <<"from", "dame">>}]
        /\ pc[b] = "done" /\ Command(b) \in Registered
        /\ resp[b] = [status |-> 500,
                      body |-> {<<"message", "not success">>,
                                <<"from", "channel closed">>}]

\* ---------------------------------------------------------------- claim C5
\* C5: once the consumer end is closed, a dispatch of "greet" or "yebisu"
\* that finishes, finishes with the send-failure error and never with a
\* success, whether it was not yet dispatched, queued for a slot or already
\* granted a slot when the channel closed; a dispatch started after the
\* close finishes in its first step, and every dispatch that was suspended
\* in its send when the channel closed does finish.
C5_ClosedSendFails ==
    /\ [][\A r \in Reqs :
            (~rxOpen /\ pc[r] # "done" /\ pc'[r] # pc[r]
                  /\ req'[r][1] \in Registered)
              => /\ pc'[r] = "done"
                 /\ result'[r] = <<"Err", "channel closed">>
                 /\ resp'[r].status = 500
                 /\ sent'[r] = <<>>]_vars
    /\ \A r \in Reqs :
          (~rxOpen /\ pc[r] \in {"suspended", "granted"})
              ~> (pc[r] = "done")

C5_Witness ==
    \E a, b, c \in Reqs :
        /\ ~rxOpen
        /\ pc[a] = "done" /\ result[a] = <<"Err", "channel closed">>
        /\ Command(a) = "greet"
        /\ pc[b] = "suspended" /\ Command(b) = "yebisu"
        /\ pc[c] = "done" /\ result[c][1] = "Ok"

\* ---------------------------------------------------------------- claim C6
\* C6: with the consumer draining the channel, a submitted request can start
\* whatever the requests before and after it are doing, in every state of the
\* channel (free, full, closed), and whenever a dispatch of one command has
\* not completed and a dispatch of a different command is under way, the
\* latter completes.
C6_Independent ==
    /\ [](\A b \in Reqs :
            (server = "serving" /\ pc[b] = "idle")
              => \A c \in Commands, p \in Params : ENABLED Dispatch(b, c, p))
    /\ \A b \in Reqs :
          (/\ pc[b] \in InFlight
           /\ \E a \in Reqs : pc[a] \in InFlight /\ Command(a) # Command(b))
              ~> (pc[b] = "done")

\* Request a, submitted before b, is suspended in its send on the full
\* channel; b has completed with its own response.
C6_Witness ==
    \E a, b \in Reqs :
        /\ a < b
        /\ pc[a] = "suspended" /\ Command(a) = "greet"
        /\ pc[b] = "done" /\ Command(b) = "yebisu" /\ result[b][1] = "Ok"
        /\ Len(chan) = capacity
        /\ rxOpen

\* ---------------------------------------------------------------- claim C7
\* C7: a request that ended in success got its handler's text ("good-bye"
\* for greet, "Yebisu beer is excellent!" for yebisu) in a 200 response and
\* placed exactly one string on the channel, its handler's prefix followed by
\* its own params; no request ever places more than one string, and a
\* request that ended in an error placed none.
C7_OneNotification ==
    \A r \in Reqs :
        /\ Len(sent[r]) <= 1
        /\ (pc[r] = "done" /\ result[r][1] = "Ok" /\ Command(r) = "greet")
              => /\ result[r][2] = "good-bye"
                 /\ resp[r] = [status |-> 200,
                               body |-> {<<"response", "good-bye">>}]
                 /\ sent[r] = <<"greet handler kara: " \o ParamsOf(r)>>
        /\ (pc[r] = "done" /\ result[r][1] = "Ok" /\ Command(r) = "yebisu")
              => /\ result[r][2] = "Yebisu beer is excellent!"
                 /\ resp[r] = [status |-> 200,
                               body |-> {<<"response", "Yebisu beer is excellent!">>}]
                 /\ sent[r] = <<"yebisu handler kara: " \o ParamsOf(r)>>
        /\ (pc[r] = "done" /\ result[r][1] = "Ok") => Command(r) \in Registered
        /\ (pc[r] = "done" /\ result[r][1] = "Err") => sent[r] = <<>>

C7_Witness ==
    \E a, b \in Reqs :
        /\ pc[a] = "done" /\ req[a] = <<"greet", "hi">>
        /\ result[a] = <<"Ok", "good-bye">>
        /\ sent[a] = <<"greet handler kara: hi">>
        /\ pc[b] = "done" /\ req[b] = <<"yebisu", "x">>
        /\ result[b] = <<"Ok", "Yebisu beer is excellent!">>
        /\ sent[b] = <<"yebisu handler kara: x">>

\* ---------------------------------------------------------------- claim C8
\* The strings the channel has accepted so far: those already taken by the
\* consumer followed by those still buffered.
Accepted == received \o chan

\* C8: with the consumer open, a greet dispatch and a yebisu dispatch that
\* were in flight together both complete, each with the response of its own
\* command; and every string the channel accepted is the string of exactly
\* one request: that request's handler prefix followed by that request's own
\* params.
C8_NoInterference ==
    /\ [](\A a, b \in Reqs :
            (/\ Command(a) = "greet" /\ Command(b) = "yebisu"
             /\ pc[a] = "done" /\ pc[b] = "done" /\ rxOpen)
              => /\ resp[a] = [status |-> 200,
                               body |-> {<<"response", "good-bye">>}]
                 /\ resp[b] = [status |-> 200,
                               body |-> {<<"response", "Yebisu beer is excellent!">>}]
                 /\ sent[a] = <<"greet handler kara: " \o ParamsOf(a)>>
                 /\ sent[b] = <<"yebisu handler kara: " \o ParamsOf(b)>>)
    /\ [](/\ Len(Accepted) = Cardinality({r \in Reqs : sent[r] # <<>>})
          /\ \A r \in Reqs :
                sent[r] # <<>> =>
                    /\ \E i \in 1..Len(Accepted) : Accepted[i] = sent[r][1]
                    /\ Command(r) = "greet"
                          => sent[r][1] = "greet handler kara: " \o ParamsOf(r)
                    /\ Command(r) = "yebisu"
                          => sent[r][1] = "yebisu handler kara: " \o ParamsOf(r))
    /\ \A a \in Reqs :
          (/\ pc[a] \in InFlight
           /\ \E b \in Reqs : pc[b] \in InFlight /\ Command(b) # Command(a))
              ~> (pc[a] = "done")

C8_Witness ==
    \E a, b \in Reqs :
        /\ req[a] = <<"greet", "hi">> /\ req[b] = <<"yebisu", "x">>
        /\ pc[a] = "done" /\ pc[b] = "done" /\ rxOpen
        /\ resp[a].body = {<<"response", "good-bye">>}
        /\ resp[b].body = {<<"response", "Yebisu beer is excellent!">>}
        /\ \E i, j \in 1..Len(Accepted) :
              /\ i < j
              /\ Accepted[i] = "greet handler kara: hi"
              /\ Accepted[j] = "yebisu handler kara: x"
        /\ Len(received) = MaxReqs

\* ---------------------------------------------------------------- claim C9
\* C9: a request has no result and no response until its dispatch resolves;
\* it resolves once, to a success (a 200 with the response) or to an error (a
\* 500 with the envelope) and to nothing else; a resolved request never
\* changes again; and a request whose handler was called but whose string was
\* not accepted by the channel (its send failed) resolved to an error.
C9_ResolvesOnce ==
    /\ [](\A r \in Reqs :
            /\ resolved[r] <= 1
            /\ pc[r] = "done" <=> resolved[r] = 1
            /\ pc[r] # "done" => (result[r] = <<"None", "">> /\ resp[r].status = 0)
            /\ pc[r] = "done" =>
                  \/ /\ result[r][1] = "Ok" /\ resp[r].status = 200
                     /\ \E t \in {"good-bye", "Yebisu beer is excellent!"} :
                           resp[r].body = {<<"response", t>>}
                  \/ /\ result[r][1] = "Err" /\ resp[r].status = 500
                     /\ \E t \in {"dame", "channel closed"} :
                           resp[r].body = {<<"message", "not success">>,
                                            <<"from", t>>}
            /\ (pc[r] = "done" /\ invoked[r] # <<>> /\ sent[r] = <<>>)
                  => result[r][1] = "Err")
    /\ [][\A r \in Reqs :
            pc[r] = "done" => /\ pc'[r] = "done"
                              /\ result'[r] = result[r]
                              /\ resp'[r] = resp[r]
                              /\ sent'[r] = sent[r]]_vars

C9_Witness ==
    \E a, b, c \in Reqs :
        /\ pc[a] = "done" /\ result[a][1] = "Ok" /\ resolved[a] = 1
        /\ pc[b] = "done" /\ result[b] = <<"Err", "channel closed">>
        /\ invoked[b] # <<>> /\ sent[b] = <<>> /\ resolved[b] = 1
        /\ pc[c] = "done" /\ result[c] = <<"Err", "dame">>

\* --------------------------------------------------------------- claim C10
\* C10: no request is accepted while the server is not serving, and the
\* registry is complete in the state between its construction and the start
\* of serving; while the server serves the registry is exactly
\* {greet -> greet::handle, yebisu -> yebisu::handle}, no step changes it or
\* ends the serving, and a lookup of any name gives the same answer before
\* and after every step.
C10_RegistryFixed ==
    /\ [](server # "serving" => \A r \in Reqs : pc[r] = "new")
    /\ [](server \in {"built", "serving"} =>
            /\ DOMAIN handlers = {"greet", "yebisu"}
            /\ handlers["greet"] = "greet::handle"
            /\ handlers["yebisu"] = "yebisu::handle")
    /\ [][server = "serving" =>
            /\ server' = "serving"
            /\ handlers' = handlers
            /\ \A n \in Commands : Get(handlers', n) = Get(handlers, n)]_vars

C10_Witness ==
    /\ server = "serving"
    /\ \E a, b, c \in Reqs :
          /\ pc[a] = "done" /\ result[a][1] = "Ok"
          /\ pc[b] = "done" /\ result[b][1] = "Err" /\ Command(b) = "unknown"
          /\ pc[c] = "done" /\ result[c][1] = "Err" /\ Command(c) = "yebisu"
    /\ Get(handlers, "yebisu") = <<"yebisu::handle">>
    /\ Get(handlers, "unknown") = <<>>

\* ------------------------------------------- shared predicates (continued)

\* The string the handler of request r sends: its prefix and r's params.
ExpectedNote(r) ==
    IF Command(r) = "greet" THEN "greet handler kara: " \o ParamsOf(r)
    ELSE "yebisu handler kara: " \o ParamsOf(r)

\* Requests that hold a slot handed to them by the consumer's last receive.
Granted == {r \in Reqs : pc[r] = "granted"}

\* Request r is queued on the semaphore.
Queued(r) == \E i \in 1..Len(waiters) : waiters[i] = r

\* --------------------------------------------------------------- claim C11
\* C11: the step in which a dispatch ends in an error changes neither the
\* registry, nor the server, nor the open/closed state, buffer and queue of
\* the channel, nor (while the consumer is open) its free slots, nor anything
\* of any other request; while the consumer is open the slots stay accounted
\* for; after any failure the server still dispatches every request, and a
\* dispatch of a registered command that finds the consumer open and a free
\* slot, or resumes with its granted slot, still succeeds.
C11_FailureNotFatal ==
    /\ [][\A r \in Reqs :
            (pc[r] # "done" /\ pc'[r] = "done" /\ result'[r][1] = "Err")
              => /\ handlers' = handlers /\ server' = server
                 /\ rxOpen' = rxOpen
                 /\ chan' = chan /\ waiters' = waiters /\ received' = received
                 /\ rxOpen => permits' = permits
                 /\ \A o \in Reqs \ {r} :
                       /\ pc'[o] = pc[o] /\ result'[o] = result[o]
                       /\ resp'[o] = resp[o] /\ sent'[o] = sent[o]
                       /\ invoked'[o] = invoked[o]]_vars
    /\ [](rxOpen => permits + Len(chan) + Cardinality(Granted) = capacity)
    /\ [](\A b \in Reqs :
            (/\ pc[b] = "idle" /\ server = "serving"
             /\ \E a \in Reqs : pc[a] = "done" /\ result[a][1] = "Err")
              => \A c \in Commands : \A p \in ParamsFor(c) :
                    ENABLED Dispatch(b, c, p))
    /\ [][\A r \in Reqs :
            (/\ rxOpen
             /\ \/ pc[r] = "idle" /\ pc'[r] # "idle" /\ permits > 0
                      /\ req'[r][1] \in Registered
                \/ pc[r] = "granted" /\ pc'[r] # "granted")
              => /\ pc'[r] = "done" /\ result'[r][1] = "Ok"
                 /\ resp'[r].status = 200]_vars

C11_Witness ==
    \E a, b, c \in Reqs :
        /\ rxOpen
        /\ pc[a] = "done" /\ result[a] = <<"Err", "dame">>
        /\ pc[b] = "done" /\ result[b][1] = "Ok" /\ Command(b) = "greet"
        /\ pc[c] = "suspended" /\ Command(c) = "yebisu"
        /\ received = <<>>
        /\ chan = <<ExpectedNote(b)>>

\* --------------------------------------------------------------- claim C12
\* C12: the channel never holds more than its capacity; a handler that sends
\* while the channel is open and without a free slot is suspended and queued,
\* and while it is in flight it has put nothing on the channel and has no
\* result; a slot the consumer frees goes at once to the oldest queued sender,
\* which can then run, puts its notification on the channel and succeeds; when
\* the channel is closed every suspended sender can run and fails, adding
\* nothing; and under a consumer that keeps draining (or closes) every
\* suspended dispatch is eventually resolved.
C12_Backpressure ==
    /\ [](Len(chan) <= capacity /\ permits >= 0 /\ permits <= capacity)
    /\ [](\A r \in Reqs :
            /\ pc[r] \in InFlight
                  => /\ sent[r] = <<>> /\ result[r] = <<"None", "">>
                     /\ Command(r) \in Registered
            /\ (pc[r] = "suspended" /\ rxOpen) => (permits = 0 /\ Queued(r))
            /\ (pc[r] = "granted" \/ (pc[r] = "suspended" /\ ~rxOpen))
                  => ENABLED Resume(r))
    /\ [][\A r \in Reqs :
            /\ (pc[r] = "idle" /\ pc'[r] # "idle" /\ req'[r][1] \in Registered
                   /\ rxOpen /\ permits = 0)
                  => (pc'[r] = "suspended" /\ chan' = chan)
            /\ (pc[r] = "idle" /\ pc'[r] = "suspended")
                  => (rxOpen /\ permits = 0)
            /\ (pc[r] \in InFlight /\ pc'[r] = "done")
                  => \/ /\ rxOpen /\ pc[r] = "granted"
                        /\ result'[r][1] = "Ok"
                        /\ chan' = Append(chan, ExpectedNote(r))
                     \/ /\ ~rxOpen
                        /\ result'[r] = <<"Err", "channel closed">>
                        /\ chan' = chan]_vars
    /\ [][(received' # received /\ waiters # <<>>)
            => (pc'[Head(waiters)] = "granted" /\ waiters' = Tail(waiters))]_vars
    /\ \A r \in Reqs : (pc[r] \in InFlight) ~> (pc[r] = "done")

C12_Witness ==
    \E a, b \in Reqs :
        /\ rxOpen
        /\ pc[a] = "done" /\ result[a][1] = "Ok"
        /\ Len(received) >= 1
        /\ chan = <<ExpectedNote(a)>>
        /\ pc[b] = "suspended" /\ waiters = <<b>> /\ permits = 0

\* --------------------------------------------------------------- claim C13
\* C13 as stated: the response of a dispatch does not wait for the handler's
\* send, so a request whose handler has been called has its response whether
\* or not that send has completed.
C13_ResponseIgnoresSend ==
    \A r \in Reqs : invoked[r] # <<>> => resp[r].status # 0

\* C13 as amended: the dispatcher awaits the handler and the handler awaits
\* its send, so a dispatch of a registered command has no response while its
\* send is pending; a 200 is returned only after the channel accepted the
\* request's notification and a 500 only after the send failed on a closed
\* channel.  What the response does not wait for is the consumer: a 200 is
\* returned while the notification is still buffered.
C13_ResponseAfterSend ==
    \A r \in Reqs :
        /\ pc[r] \in InFlight => resp[r].status = 0
        /\ (Command(r) \in Registered /\ resp[r].status = 200)
              => /\ sent[r] = <<ExpectedNote(r)>>
                 /\ \E i \in 1..Len(Accepted) : Accepted[i] = ExpectedNote(r)
        /\ (Command(r) \in Registered /\ resp[r].status = 500)
              => (sent[r] = <<>> /\ ~rxOpen)

C13_Witness ==
    \E a, b \in Reqs :
        /\ resp[a].status = 200 /\ Command(a) = "greet"
        /\ received = <<>> /\ chan = <<ExpectedNote(a)>>
        /\ pc[b] = "suspended" /\ resp[b].status = 0 /\ invoked[b] # <<>>

\* --------------------------------------------------------------- claim C14
\* C14: a request whose command is not registered is never suspended or
\* queued on the channel; its dispatch can be taken in every state of the
\* channel (empty, full, closed, with senders queued) and ends in that very
\* step with the unknown-command error, without touching slots or queue.
C14_UnknownNeverWaits ==
    /\ [](\A r \in Reqs :
            /\ (pc[r] \notin {"new", "idle"} /\ Command(r) \notin Registered)
                  => (pc[r] = "done" /\ ~Queued(r))
            /\ (pc[r] = "idle" /\ server = "serving")
                  => \A c \in Commands \ Registered : \A p \in ParamsFor(c) :
                        ENABLED Dispatch(r, c, p))
    /\ [][\A r \in Reqs :
            (pc[r] = "idle" /\ pc'[r] # "idle" /\ req'[r][1] \notin Registered)
              => /\ pc'[r] = "done"
                 /\ resp'[r] = [status |-> 500,
                                body |-> {<<"message", "not success">>,
                                          <<"from", "dame">>}]
                 /\ permits' = permits /\ waiters' = waiters]_vars

C14_Witness ==
    \E r, a, b \in Reqs :
        /\ r > a /\ r > b
        /\ Command(r) = "unknown" /\ pc[r] = "done"
        /\ resp[r].status = 500
        /\ rxOpen /\ Len(chan) = capacity /\ permits = 0
        /\ pc[a] = "done" /\ Command(a) \in Registered
        /\ pc[b] = "suspended"

\* --------------------------------------------------------------- claim C15
\* C15: a dispatched request has had a handler called if and only if its
\* command is exactly "greet" or exactly "yebisu"; a request for "Greet",
\* for the empty string or for "unknown" ended with the unknown-command
\* error and no handler call and no notification.
C15_ExactMatch ==
    \A r \in Reqs :
        pc[r] \notin {"new", "idle"} =>
            /\ invoked[r] # <<>> <=> (Command(r) = "greet" \/ Command(r) = "yebisu")
            /\ Command(r) \in {"Greet", "", "unknown"}
                  => /\ pc[r] = "done"
                     /\ result[r] = <<"Err", "dame">>
                     /\ invoked[r] = <<>> /\ sent[r] = <<>>

C15_Witness ==
    \E a, b, c \in Reqs :
        /\ pc[a] = "done" /\ Command(a) = "Greet" /\ invoked[a] = <<>>
        /\ result[a] = <<"Err", "dame">>
        /\ pc[b] = "done" /\ Command(b) = "" /\ invoked[b] = <<>>
        /\ result[b] = <<"Err", "dame">>
        /\ pc[c] = "done" /\ Command(c) = "greet"
        /\ invoked[c] = <<"greet::handle">> /\ result[c][1] = "Ok"

\* --------------------------------------------------------------- claim C16
\* C16: requests are numbered in the order of their submission.  Two
\* requests that are both submitted and not yet started can each start
\* first, with any command; the step in which a request's send returns Ok
\* puts its string at the end of the strings accepted so far; the strings
\* the consumer has are, position by position, the first of the accepted
\* ones, and the buffered ones are the rest in the same order.  So the
\* consumer sees the strings in the order the channel accepted them,
\* which can be the opposite of the order of submission.
C16_NoOrdering ==
    /\ [](\A a, b \in Reqs :
            (a < b /\ pc[a] = "idle" /\ pc[b] = "idle")
              => \A c \in Commands : \A p \in ParamsFor(c) :
                    /\ ENABLED Dispatch(a, c, p)
                    /\ ENABLED Dispatch(b, c, p))
    /\ [][\A r \in Reqs :
            sent'[r] # sent[r]
              => /\ sendLog' = Append(sendLog, sent'[r][1])
                 /\ received' = received]_vars
    /\ [](/\ Len(received) <= Len(sendLog)
          /\ \A i \in 1..Len(received) : received[i] = sendLog[i]
          /\ \A i \in 1..Len(chan) : chan[i] = sendLog[Len(received) + i]
          /\ Len(sendLog) = Len(received) + Len(chan))

\* Requests 1, 2, 3 in the order of submission; the channel accepted the
\* string of 2, then that of 1 (opposite order), then that of 3; the consumer
\* has the first and two strings are buffered behind it.
C16_Witness ==
    /\ req[1] = <<"greet", "hi">>
    /\ req[2] = <<"yebisu", "x">>
    /\ req[3] = <<"greet", "x">>
    /\ sendLog = <<"yebisu handler kara: x", "greet handler kara: hi",
                   "greet handler kara: x">>
    /\ received = <<"yebisu handler kara: x">>
    /\ chan = <<"greet handler kara: hi", "greet handler kara: x">>

\* --------------------------------------------------------------- claim C17
\* Number of positions of sequence q that hold m.
Count(q, m) == Cardinality({i \in 1..Len(q) : q[i] = m})

\* C17: there are never more success responses than strings the channel has
\* accepted; every request with a success response has sent exactly one
\* string, its own notification, and the channel has accepted that string at
\* least as many times as there are success responses of requests with that
\* notification.
C17_SendBeforeResponse ==
    /\ Cardinality({r \in Reqs : resp[r].status = 200}) <= Len(Accepted)
    /\ \A r \in Reqs :
          resp[r].status = 200
            => /\ Len(sent[r]) = 1
               /\ sent[r][1] = ExpectedNote(r)
               /\ Count(Accepted, ExpectedNote(r)) >=
                     Cardinality({o \in Reqs : /\ resp[o].status = 200
                                               /\ ExpectedNote(o) = ExpectedNote(r)})

C17_Witness ==
    \E a, b, c \in Reqs :
        /\ a # b
        /\ resp[a].status = 200 /\ resp[b].status = 200
        /\ req[a] = req[b]
        /\ Count(Accepted, ExpectedNote(a)) = 2
        /\ resp[c].status = 500 /\ Command(c) = "yebisu"

\* --------------------------------------------------------------- claim C18
\* The strings some request has sent.
SentNotes == {sent[r][1] : r \in {o \in Reqs : sent[o] # <<>>}}

\* C18: the sequence of accepted strings (those whose send returned Ok) only
\* grows, by one string at its end; a step of the consumer hands it exactly
\* the oldest accepted string it does not have yet, so what it has received
\* is always the accepted sequence up to some position, each string once,
\* and what is buffered is the rest; every accepted string was sent by
\* exactly one handler call of a request for a registered command that
\* succeeded, and requests that failed or asked for an unknown command sent
\* none; while the consumer stays open and keeps draining, the n-th accepted
\* string is eventually the n-th string the consumer has.
C18_Conservation ==
    /\ [][/\ Len(sendLog') \in {Len(sendLog), Len(sendLog) + 1}
          /\ SubSeq(sendLog', 1, Len(sendLog)) = sendLog
          /\ \/ received' = received
             \/ /\ Len(received) < Len(sendLog)
                /\ received' = Append(received, sendLog[Len(received) + 1])]_vars
    /\ [](/\ Len(received) <= Len(sendLog)
          /\ received = SubSeq(sendLog, 1, Len(received))
          /\ chan = SubSeq(sendLog, Len(received) + 1, Len(sendLog))
          /\ \A i \in 1..Len(sendLog) : sendLog[i] \in SentNotes
          /\ \A m \in SentNotes :
                Count(sendLog, m) = Cardinality({r \in Reqs : sent[r] = <<m>>})
          /\ \A r \in Reqs :
                /\ sent[r] # <<>>
                      => /\ Command(r) \in Registered
                         /\ Len(invoked[r]) = 1 /\ Len(sent[r]) = 1
                         /\ result[r][1] = "Ok"
                /\ (pc[r] = "done" /\ result[r][1] = "Err") => sent[r] = <<>>)
    /\ \A n \in 1..MaxReqs :
          (rxOpen /\ Len(sendLog) >= n) ~> (Len(received) >= n \/ ~rxOpen)

\* Two strings were buffered together behind an open consumer, which has
\* taken the older one; a third request, for an unknown command, sent none.
C18_Witness ==
    \E a, b, c \in Reqs :
        /\ rxOpen /\ capacity = 2
        /\ sent[a] = <<"greet handler kara: hi">>
        /\ sent[b] = <<"yebisu handler kara: hi">>
        /\ sendLog = sent[b] \o sent[a]
        /\ received = sent[b] /\ chan = sent[a]
        /\ permits = 1
        /\ pc[c] = "done" /\ Command(c) = "unknown" /\ sent[c] = <<>>

\* --------------------------------------------------------------- claim C19
\* C19: as long as server::start has not failed to bind, the server state's
\* own Sender is alive (there is one live Sender plus one per dispatch in
\* flight, so never none); the Sender count reaches zero only when the bind
\* failed, and then no request was ever dispatched; the step that ends a
\* dispatch, in success or in error, leaves the channel as open as it was
\* and a Sender alive; and the only step that closes the channel changes no
\* request: it is the consumer's.
C19_ProducersNeverClose ==
    /\ [](server # "stopped" =>
            /\ senders >= 1
            /\ senders = 1 + Cardinality({r \in Reqs : pc[r] \in InFlight}))
    /\ [](senders = 0 => (server = "stopped" /\ \A r \in Reqs : pc[r] = "new"))
    /\ [][server = "serving" => server' = "serving"]_vars
    /\ [][\A r \in Reqs :
            (pc[r] # "done" /\ pc'[r] = "done")
              => (rxOpen' = rxOpen /\ senders' >= 1)]_vars
    /\ [][(rxOpen /\ ~rxOpen')
            => /\ pc' = pc /\ result' = result /\ resp' = resp
               /\ senders' = senders /\ chan' = chan /\ sent' = sent]_vars

C19_Witness ==
    /\ server = "serving"
    /\ rxOpen /\ senders = 1
    /\ \A r \in Reqs : pc[r] = "done"
    /\ \E a, b \in Reqs :
          /\ result[a][1] = "Ok"
          /\ result[b][1] = "Err"

\* --------------------------------------------------------------- claim C20
\* C20: in both event loops every handled gossip message whose data is HELLO
\* made exactly one publish call, of WORLD; every one whose data is WORLD made
\* exactly one, of HELLO; every other message made none; a stdin line made
\* exactly one publish call and the other events none.  No step of the loop
\* leaves the loop, whatever the outcome of its publish call, and as long as
\* the loop runs it can take another stdin line and another network event.
C20_ReplyAndContinue ==
    /\ [](\A i \in 1..Len(log) :
            LET e == log[i] IN
            /\ (e.kind = "message" /\ e.data = "HELLO")
                  => (Len(e.pubs) = 1 /\ e.pubs[1][1] = "WORLD")
            /\ (e.kind = "message" /\ e.data = "WORLD")
                  => (Len(e.pubs) = 1 /\ e.pubs[1][1] = "HELLO")
            /\ (e.kind = "message" /\ e.data \notin {"HELLO", "WORLD"})
                  => e.pubs = <<>>
            /\ e.kind = "stdin" => Len(e.pubs) = 1
            /\ e.kind \notin {"message", "stdin"} => e.pubs = <<>>)
    /\ [][mainPc = "loop" => mainPc' = "loop"]_vars
    /\ [](mainPc = "setup" => log = <<>>)
    /\ []((mainPc = "loop" /\ Len(log) < MaxEvents)
            => /\ \A line \in Lines, o \in PublishOutcomes :
                     ENABLED StdinLine(line, o)
               /\ \A data \in Datas, o \in PublishOutcomes :
                     ENABLED GossipMessage(data, o)
               /\ \A kind \in {"listen", "other"} : ENABLED OtherEvent(kind))

\* A HELLO whose reply failed to publish, then a message that is not
\* answered, then a stdin line whose publish failed, then still in the loop.
C20_Witness ==
    /\ mainPc = "loop"
    /\ Len(log) = 3
    /\ log[1].kind = "message" /\ log[1].data = "HELLO"
    /\ log[1].pubs = <<<<"WORLD", "Err">>>>
    /\ log[2].kind = "message" /\ log[2].data = "hello" /\ log[2].pubs = <<>>
    /\ log[3].kind = "stdin" /\ log[3].pubs = <<<<"HELLO", "Err">>>>

====
